---- MODULE Spec2Model ----
(***************************************************************************)
(* State-machine model of the SCL sorted-index engine: the AVL tree        *)
(* (AVLTree, Node, NodeRange) and the binary-search-tree base (BST,        *)
(* BSNode, BSNodeRange).  Nodes live in an arena indexed by 1..MaxNodes;   *)
(* NULL stands for null / undefined.  Every public method is one action,   *)
(* computed the way the source computes it (loops become recursive         *)
(* operators over the heap record).                                        *)
(***************************************************************************)
EXTENDS Integers, Sequences, FiniteSets, TLC

\* ------------------------------------------------------------------ bounds
\* MaxNodes bounds the arena (and the trees grown by add alone), MaxSize the
\* trees that every operation is applied to.
MaxNodes == 5
MaxSize == 4
MaxKey == 3
MaxPayload == 2
MaxHeapSize == 5

NULL == 0
Nodes == 1..MaxNodes
Keys == 1..MaxKey
\* A stored element is a pair <<key, payload>>.
Values == Keys \X (1..MaxPayload)
NoValue == <<0, 0>>

\* kind: which collection this is; cfg: its constructor options; tree: the
\* node heap of a tree; vector: the _vector of a BinaryMinHeap; last: the
\* last call and what it returned; dictValues: the _values of a StringDict.
VARIABLES kind, cfg, tree, last, vector, dictValues
vars == <<kind, cfg, tree, last, vector, dictValues>>

\* ------------------------------------------------- collaborators (policies)
getKey(val) == val[1]
lessThan(a, b) == a < b
elementsEqual(a, b) == a = b
\* liftLesser(lessThan): three-way comparison built from the strict order.
Compare(a, b) == IF lessThan(a, b) THEN -1 ELSE IF lessThan(b, a) THEN 1 ELSE 0

\* ----------------------------------------------------------------- heap
EmptyTree ==
  [root |-> NULL, size |-> 0,
   left |-> [n \in Nodes |-> NULL], right |-> [n \in Nodes |-> NULL],
   parent |-> [n \in Nodes |-> NULL], value |-> [n \in Nodes |-> NoValue],
   balance |-> [n \in Nodes |-> 0]]

\* Nodes reachable from n through child links.
RECURSIVE Subtree(_, _)
Subtree(h, n) ==
  IF n = NULL THEN {}
  ELSE {n} \cup Subtree(h, h.left[n]) \cup Subtree(h, h.right[n])

Reach(h) == Subtree(h, h.root)

\* The least arena slot no reachable node occupies (new Node / createNode).
NewNode(h) == CHOOSE n \in Nodes \ Reach(h) : \A m \in Nodes \ Reach(h) : n <= m

\* Reachable nodes in left-node-right order.
RECURSIVE Flatten(_, _)
Flatten(h, n) ==
  IF n = NULL THEN <<>>
  ELSE Flatten(h, h.left[n]) \o <<n>> \o Flatten(h, h.right[n])

\* A reference that leads to no reachable node.
Dangling == -1

\* Node identity is opaque to callers and unreachable nodes are garbage:
\* when a call returns, the reachable nodes are renumbered 1..n in
\* left-node-right order and the other slots are wiped.
Rename(h, x) ==
  LET ns == Flatten(h, h.root) IN
  IF x = NULL THEN NULL
  ELSE IF \E i \in 1..Len(ns) : ns[i] = x THEN CHOOSE i \in 1..Len(ns) : ns[i] = x
  ELSE Dangling

Collect(h) ==
  LET ns == Flatten(h, h.root)
      ren(x) == IF x = NULL THEN NULL
                ELSE IF \E i \in 1..Len(ns) : ns[i] = x THEN CHOOSE i \in 1..Len(ns) : ns[i] = x
                ELSE Dangling
  IN [root |-> ren(h.root), size |-> h.size,
      left |-> [i \in Nodes |-> IF i <= Len(ns) THEN ren(h.left[ns[i]]) ELSE NULL],
      right |-> [i \in Nodes |-> IF i <= Len(ns) THEN ren(h.right[ns[i]]) ELSE NULL],
      parent |-> [i \in Nodes |-> IF i <= Len(ns) THEN ren(h.parent[ns[i]]) ELSE NULL],
      value |-> [i \in Nodes |-> IF i <= Len(ns) THEN h.value[ns[i]] ELSE NoValue],
      balance |-> [i \in Nodes |-> IF i <= Len(ns) THEN h.balance[ns[i]] ELSE 0]]

\* ------------------------------------------------------------ AVL: Node
RECURSIVE Node_leftmost(_, _)
Node_leftmost(h, n) == IF h.left[n] # NULL THEN Node_leftmost(h, h.left[n]) ELSE n

RECURSIVE Node_rightmost(_, _)
Node_rightmost(h, n) == IF h.right[n] # NULL THEN Node_rightmost(h, h.right[n]) ELSE n

RECURSIVE Node_upWhileRight(_, _)
Node_upWhileRight(h, n) ==
  IF h.parent[n] # NULL /\ n = h.right[h.parent[n]]
  THEN Node_upWhileRight(h, h.parent[n]) ELSE h.parent[n]

RECURSIVE Node_upWhileLeft(_, _)
Node_upWhileLeft(h, n) ==
  IF h.parent[n] # NULL /\ n = h.left[h.parent[n]]
  THEN Node_upWhileLeft(h, h.parent[n]) ELSE h.parent[n]

\* Node_next that takes the right child itself instead of its leftmost
\* descendant.
Node_next_noDescent(h, n) ==
  IF h.right[n] # NULL THEN h.right[n] ELSE Node_upWhileRight(h, n)

Node_next(h, n) ==
  IF h.right[n] # NULL THEN Node_leftmost(h, h.right[n]) ELSE Node_upWhileRight(h, n)

Node_prev(h, n) ==
  IF h.left[n] # NULL THEN Node_rightmost(h, h.left[n]) ELSE Node_upWhileLeft(h, n)

\* ------------------------------------------------------- AVL: rotations
\* rotateLeft that zeroes both balances, as is right only when the right
\* child leaned by one and the node by two.
rotateLeft_zeroed(h, node) ==
  LET rightNode == h.right[node]
      rl == h.left[rightNode]
      p == h.parent[node]
      h1 == [h EXCEPT !.right[node] = rl]
      h2 == IF rl # NULL THEN [h1 EXCEPT !.parent[rl] = node] ELSE h1
      h3 == [h2 EXCEPT !.parent[rightNode] = p]
      h4 == IF p # NULL
            THEN IF h3.left[p] = node THEN [h3 EXCEPT !.left[p] = rightNode]
                                      ELSE [h3 EXCEPT !.right[p] = rightNode]
            ELSE h3
      h5 == [h4 EXCEPT !.parent[node] = rightNode, !.left[rightNode] = node]
  IN [h5 EXCEPT !.balance[node] = 0, !.balance[rightNode] = 0]

rotateLeft(h, node) ==
  LET rightNode == h.right[node]
      rl == h.left[rightNode]
      p == h.parent[node]
      h1 == [h EXCEPT !.right[node] = rl]
      h2 == IF rl # NULL THEN [h1 EXCEPT !.parent[rl] = node] ELSE h1
      h3 == [h2 EXCEPT !.parent[rightNode] = p]
      h4 == IF p # NULL
            THEN IF h3.left[p] = node THEN [h3 EXCEPT !.left[p] = rightNode]
                                      ELSE [h3 EXCEPT !.right[p] = rightNode]
            ELSE h3
      h5 == [h4 EXCEPT !.parent[node] = rightNode, !.left[rightNode] = node]
      nb1 == h5.balance[node] + 1
      nb == IF h5.balance[rightNode] < 0 THEN nb1 - h5.balance[rightNode] ELSE nb1
      rb1 == h5.balance[rightNode] + 1
      rb == IF nb > 0 THEN rb1 + nb ELSE rb1
  IN [h5 EXCEPT !.balance[node] = nb, !.balance[rightNode] = rb]

rotateRight(h, node) ==
  LET leftNode == h.left[node]
      lr == h.right[leftNode]
      p == h.parent[node]
      h1 == [h EXCEPT !.left[node] = lr]
      h2 == IF lr # NULL THEN [h1 EXCEPT !.parent[lr] = node] ELSE h1
      h3 == [h2 EXCEPT !.parent[leftNode] = p]
      h4 == IF p # NULL
            THEN IF h3.left[p] = node THEN [h3 EXCEPT !.left[p] = leftNode]
                                      ELSE [h3 EXCEPT !.right[p] = leftNode]
            ELSE h3
      h5 == [h4 EXCEPT !.parent[node] = leftNode, !.right[leftNode] = node]
      nb1 == h5.balance[node] - 1
      nb == IF h5.balance[leftNode] > 0 THEN nb1 - h5.balance[leftNode] ELSE nb1
      lb1 == h5.balance[leftNode] - 1
      lb == IF nb < 0 THEN lb1 + nb ELSE lb1
  IN [h5 EXCEPT !.balance[node] = nb, !.balance[leftNode] = lb]

\* inlined rightBalance(parent) / leftBalance(parent) with the root fix-up.
\* Result: the heap and the new subtree root.
\* if (parent === this._root) { this._root = newRoot } after a rotation of
\* parent; newRoot, the node the rotation returned, is parent's new parent.
\* Result: the heap and newRoot.
fixRoot(h, parent) ==
  [h |-> IF parent = h.root THEN [h EXCEPT !.root = h.parent[parent]] ELSE h,
   newRoot |-> h.parent[parent]]

\* rightBalance that never rotates.
rightBalance_skip(h, parent) == [h |-> h, newRoot |-> parent]

\* inlined rightBalance(parent) / leftBalance(parent) with the root fix-up.
rightBalance(h, parent) ==
  fixRoot(rotateLeft(IF h.balance[h.right[parent]] = 1
                     THEN rotateRight(h, h.right[parent]) ELSE h, parent), parent)

leftBalance(h, parent) ==
  fixRoot(rotateRight(IF h.balance[h.left[parent]] = -1
                      THEN rotateLeft(h, h.left[parent]) ELSE h, parent), parent)

\* ---------------------------------------------------- AVL: getAddHint, add
\* Result: [ok, node, cmp]; cmp = 2 stands for "undefined" (empty tree).
RECURSIVE AVL_hintLoop(_, _, _, _, _, _)
AVL_hintLoop(h, allowDuplicates, key, node, parent, cmp) ==
  IF node = NULL THEN [ok |-> TRUE, node |-> parent, cmp |-> cmp]
  ELSE LET c == Compare(key, getKey(h.value[node])) IN
       IF ~allowDuplicates
       THEN IF c = 0 THEN [ok |-> FALSE, node |-> node, cmp |-> c]
            ELSE IF c < 0 THEN AVL_hintLoop(h, allowDuplicates, key, h.left[node], node, c)
            ELSE AVL_hintLoop(h, allowDuplicates, key, h.right[node], node, c)
       ELSE IF c <= 0 THEN AVL_hintLoop(h, allowDuplicates, key, h.left[node], node, c)
            ELSE AVL_hintLoop(h, allowDuplicates, key, h.right[node], node, c)

\* AVL_getAddHint that always takes the allowDuplicates branch.
AVL_getAddHint_anyKey(h, allowDuplicates, value) ==
  AVL_hintLoop(h, TRUE, getKey(value), h.root, NULL, 2)

AVL_getAddHint(h, allowDuplicates, value) ==
  AVL_hintLoop(h, allowDuplicates, getKey(value), h.root, NULL, 2)

\* parent.balance -= 1 / += 1 by the side the new value went to.
AVL_addAdjust(h, parent, value) ==
  IF Compare(getKey(h.value[parent]), getKey(value)) < 0
  THEN [h EXCEPT !.balance[parent] = @ - 1]
  ELSE [h EXCEPT !.balance[parent] = @ + 1]

\* The retrace loop of add.
RECURSIVE AVL_addRetrace(_, _, _)
RECURSIVE AVL_addRetraceStep(_, _, _)
AVL_addRetrace(h, parent, value) ==
  IF parent = NULL THEN h
  ELSE AVL_addRetraceStep(AVL_addAdjust(h, parent, value), parent, value)

\* AVL_addRetraceStep that climbs on when the balance became 0.
AVL_addRetraceStep_climbOn(h, parent, value) ==
  IF h.balance[parent] < -1 THEN rightBalance(h, parent).h
  ELSE IF h.balance[parent] > 1 THEN leftBalance(h, parent).h
  ELSE AVL_addRetrace(h, h.parent[parent], value)

AVL_addRetraceStep(h, parent, value) ==
  IF h.balance[parent] = 0 THEN h
  ELSE IF h.balance[parent] < -1 THEN rightBalance(h, parent).h
  ELSE IF h.balance[parent] > 1 THEN leftBalance(h, parent).h
  ELSE AVL_addRetrace(h, h.parent[parent], value)

\* new Node(value, parent) in slot n.
AVL_newNode(h, n, value, parent) ==
  [h EXCEPT !.value[n] = value, !.parent[n] = parent, !.left[n] = NULL,
            !.right[n] = NULL, !.balance[n] = 0]

\* parent.left = newNode / parent.right = newNode
AVL_hang(h, parent, cmp, newNode) ==
  IF cmp <= 0 THEN [h EXCEPT !.left[parent] = newNode]
  ELSE [h EXCEPT !.right[parent] = newNode]

AVL_sizeUp(h) == [h EXCEPT !.size = @ + 1]

\* Lines 251-302: link newNode under the hint, retrace, count.
AVL_addUnder(h, value, parent, cmp, newNode) ==
  [h |-> AVL_sizeUp(AVL_addRetrace(
           AVL_hang(AVL_newNode(h, newNode, value, parent), parent, cmp, newNode),
           parent, value)),
   inserted |-> TRUE, cursor |-> newNode]

AVL_addWithHint(h, value, hint) ==
  IF hint.ok = FALSE THEN [h |-> h, inserted |-> FALSE, cursor |-> hint.node]
  ELSE AVL_addUnder(h, value, hint.node, hint.cmp, NewNode(h))

AVL_addRoot(h, value, n) ==
  [h |-> AVL_sizeUp([AVL_newNode(h, n, value, NULL) EXCEPT !.root = n]),
   inserted |-> TRUE, cursor |-> n]

\* Result: the heap and the returned pair [inserted, cursor].
AVL_add(h, allowDuplicates, value) ==
  IF h.root = NULL THEN AVL_addRoot(h, value, NewNode(h))
  ELSE AVL_addWithHint(h, value, AVL_getAddHint(h, allowDuplicates, value))

\* ------------------------------------------------ AVL: lookup and ranges
RECURSIVE AVL_findKeyFrom(_, _, _)
AVL_findKeyFrom(h, key, node) ==
  IF node = NULL THEN NULL
  ELSE LET cmp == Compare(key, getKey(h.value[node])) IN
       IF cmp < 0 THEN AVL_findKeyFrom(h, key, h.left[node])
       ELSE IF cmp > 0 THEN AVL_findKeyFrom(h, key, h.right[node])
       ELSE node

AVL_findKey(h, key) == AVL_findKeyFrom(h, key, h.root)

AVL_hasKey(h, key) == AVL_findKey(h, key) # NULL

\* a || b on node references
OrElse(a, b) == IF a # NULL THEN a ELSE b

RECURSIVE AVL_findMin(_, _, _)
AVL_findMin(h, key, node) ==
  IF node = NULL THEN NULL
  ELSE LET cmp == Compare(key, getKey(h.value[node])) IN
       IF cmp < 0 THEN AVL_findMin(h, key, h.left[node])
       ELSE IF cmp > 0 THEN AVL_findMin(h, key, h.right[node])
       ELSE OrElse(AVL_findMin(h, key, h.left[node]), node)

RECURSIVE AVL_findMax(_, _, _)
AVL_findMax(h, key, node) ==
  IF node = NULL THEN NULL
  ELSE LET cmp == Compare(key, getKey(h.value[node])) IN
       IF cmp < 0 THEN AVL_findMax(h, key, h.left[node])
       ELSE IF cmp > 0 THEN AVL_findMax(h, key, h.right[node])
       ELSE OrElse(AVL_findMax(h, key, h.right[node]), node)

\* AVL_equalKeys that starts the range at the topmost node.
AVL_equalKeys_top(h, key) ==
  LET top == AVL_findKey(h, key) IN
  [min |-> top, max |-> AVL_findMax(h, key, top), reversed |-> FALSE]

\* Result: the NodeRange [min, max, reversed].
AVL_equalKeys(h, key) ==
  LET top == AVL_findKey(h, key) IN
  [min |-> AVL_findMin(h, key, top), max |-> AVL_findMax(h, key, top), reversed |-> FALSE]

AVL_begin(h) == IF h.root = NULL THEN NULL ELSE Node_leftmost(h, h.root)
AVL_end(h) == IF h.root = NULL THEN NULL ELSE Node_rightmost(h, h.root)

\* NodeRange.cursors() over a heap that is not mutated meanwhile: the
\* sequence of nodes the generator yields.
RECURSIVE NodeRange_walk(_, _, _, _)
NodeRange_walk(h, node, stop, reversed) ==
  IF node = NULL THEN <<>>
  ELSE IF node = stop THEN <<node>>
  ELSE <<node>> \o NodeRange_walk(h, IF reversed THEN Node_prev(h, node) ELSE Node_next(h, node),
                                  stop, reversed)

NodeRange_reverse(r) == [min |-> r.min, max |-> r.max, reversed |-> ~r.reversed]

\* NodeRange_cursors that ignores the direction flag.
NodeRange_cursors_forward(h, r) == NodeRange_walk(h, r.min, r.max, FALSE)

NodeRange_cursors(h, r) ==
  IF ~r.reversed THEN NodeRange_walk(h, r.min, r.max, FALSE)
  ELSE NodeRange_walk(h, r.max, r.min, TRUE)

\* get size: [...this].length
NodeRange_size(h, r) == Len(NodeRange_cursors(h, r))

AVL_toRange(h) == [min |-> AVL_begin(h), max |-> AVL_end(h), reversed |-> FALSE]

AVL_hasIn(h, cs, element) == \E i \in 1..Len(cs) : elementsEqual(h.value[cs[i]], element)

AVL_has(h, element) ==
  AVL_hasIn(h, NodeRange_cursors(h, AVL_equalKeys(h, getKey(element))), element)

\* ------------------------------------------------------- AVL: deleteAt
\* First relocation loop (node.left !== null): result [h, node, max].
RECURSIVE AVL_delLeftLoop(_, _, _)
AVL_delLeftLoop(h, node, max) ==
  IF h.left[max] # NULL \/ h.right[max] # NULL
  THEN LET m == Node_rightmost(h, max)
           h1 == [h EXCEPT !.value[node] = h.value[m]]
       IN IF h1.left[m] # NULL THEN AVL_delLeftLoop(h1, m, h1.left[m])
          ELSE AVL_delLeftLoop(h1, node, m)
  ELSE [h |-> h, node |-> node, max |-> max]

\* Second relocation loop (node.right !== null): result [h, node, min].
RECURSIVE AVL_delRightLoop(_, _, _)
AVL_delRightLoop(h, node, min) ==
  IF h.left[min] # NULL \/ h.right[min] # NULL
  THEN LET m == Node_leftmost(h, min)
           h1 == [h EXCEPT !.value[node] = h.value[m]]
       IN IF h1.right[m] # NULL THEN AVL_delRightLoop(h1, m, h1.right[m])
          ELSE AVL_delRightLoop(h1, node, m)
  ELSE [h |-> h, node |-> node, min |-> min]

\* node.value = max.value; node = max  (after the first loop)
AVL_delTakeMax(r) ==
  [h |-> [r.h EXCEPT !.value[r.node] = r.h.value[r.max]], node |-> r.max]

\* node.value = min.value; node = min  (after the second loop)
AVL_delTakeMin(r) ==
  [h |-> [r.h EXCEPT !.value[r.node] = r.h.value[r.min]], node |-> r.min]

\* Lines 509-530.  Result: [h, node].
AVL_delLeft(h, node) ==
  IF h.left[node] # NULL THEN AVL_delTakeMax(AVL_delLeftLoop(h, node, h.left[node]))
  ELSE [h |-> h, node |-> node]

\* Lines 532-551.  Result: [h, node].
AVL_delRight(a) ==
  IF a.h.right[a.node] # NULL
  THEN AVL_delTakeMin(AVL_delRightLoop(a.h, a.node, a.h.right[a.node]))
  ELSE a

\* Lines 509-551: value relocation down to the node that is unlinked.
AVL_delRelocate(h, node0) == AVL_delRight(AVL_delLeft(h, node0))

\* parent.balance -= 1 / += 1 by the side child hangs on.
AVL_delAdjust(h, parent, child) ==
  IF h.left[parent] = child THEN [h EXCEPT !.balance[parent] = @ - 1]
  ELSE [h EXCEPT !.balance[parent] = @ + 1]

\* The rotations of one retrace step.  Result: the heap and the new parent.
AVL_delRebalance(h, parent) ==
  IF h.balance[parent] < -1 THEN rightBalance(h, parent)
  ELSE IF h.balance[parent] > 1 THEN leftBalance(h, parent)
  ELSE [h |-> h, newRoot |-> parent]

\* Retrace loop of deleteAt.
RECURSIVE AVL_delRetrace(_, _, _)
RECURSIVE AVL_delRetraceStep(_)
AVL_delRetrace(h, parent, child) ==
  IF parent = NULL THEN h
  ELSE AVL_delRetraceStep(AVL_delRebalance(AVL_delAdjust(h, parent, child), parent))

AVL_delRetraceStep(r) ==
  IF r.h.balance[r.newRoot] = -1 \/ r.h.balance[r.newRoot] = 1 THEN r.h
  ELSE AVL_delRetrace(r.h, r.h.parent[r.newRoot], r.newRoot)

\* AVL_unlink that forgets this._size--.
AVL_unlink_keepSize(h, node) ==
  LET p == h.parent[node]
      h1 == IF p # NULL
            THEN IF h.left[p] = node THEN [h EXCEPT !.left[p] = NULL]
                                     ELSE [h EXCEPT !.right[p] = NULL]
            ELSE h
  IN IF node = h1.root THEN [h1 EXCEPT !.root = NULL] ELSE h1

\* Lines 598-610: unlink node and count down.
AVL_unlink(h, node) ==
  LET p == h.parent[node]
      h1 == IF p # NULL
            THEN IF h.left[p] = node THEN [h EXCEPT !.left[p] = NULL]
                                     ELSE [h EXCEPT !.right[p] = NULL]
            ELSE h
      h2 == IF node = h1.root THEN [h1 EXCEPT !.root = NULL] ELSE h1
  IN [h2 EXCEPT !.size = @ - 1]

\* AVL_delRemove that leaves a root in place.
AVL_delRemove_keepRoot(a) ==
  IF a.node = a.h.root THEN [a.h EXCEPT !.size = @ - 1]
  ELSE AVL_unlink(AVL_delRetrace(a.h, a.h.parent[a.node], a.node), a.node)

\* Lines 553-610 on the relocated heap a = [h, node].
AVL_delRemove(a) ==
  AVL_unlink(AVL_delRetrace(a.h, a.h.parent[a.node], a.node), a.node)

AVL_deleteAt(h, node0) == AVL_delRemove(AVL_delRelocate(h, node0))

\* ------------------------------------- AVL: delete, deleteKey, deleteAll
\* The first node of cs whose value equals element, NULL when none does.
RECURSIVE AVL_firstEqual(_, _, _)
AVL_firstEqual(h, cs, element) ==
  IF cs = <<>> THEN NULL
  ELSE IF elementsEqual(h.value[Head(cs)], element) THEN Head(cs)
  ELSE AVL_firstEqual(h, Tail(cs), element)

AVL_deleteFound(h, node) ==
  IF node = NULL THEN [h |-> h, ret |-> FALSE]
  ELSE [h |-> AVL_deleteAt(h, node), ret |-> TRUE]

\* Result: [h, ret].
AVL_delete(h, element) ==
  AVL_deleteFound(h, AVL_firstEqual(h, NodeRange_cursors(h, AVL_equalKeys(h, getKey(element))),
                                    element))

\* for (node of range.cursors()) { deleteAt(node); ++deleteCount }: the
\* generator resumes (node === max, node.next()) on the heap deleteAt left.
RECURSIVE AVL_deleteKeyLoop(_, _, _, _)
RECURSIVE AVL_deleteKeyResume(_, _, _, _)
AVL_deleteKeyLoop(h, node, max, deleteCount) ==
  IF node = NULL THEN [h |-> h, ret |-> deleteCount]
  ELSE AVL_deleteKeyResume(AVL_deleteAt(h, node), node, max, deleteCount + 1)

AVL_deleteKeyResume(h, node, max, deleteCount) ==
  IF node = max THEN [h |-> h, ret |-> deleteCount]
  ELSE AVL_deleteKeyLoop(h, Node_next(h, node), max, deleteCount)

AVL_deleteKeyRange(h, r) == AVL_deleteKeyLoop(h, r.min, r.max, 0)

AVL_deleteKey(h, key) == AVL_deleteKeyRange(h, AVL_equalKeys(h, key))

RECURSIVE AVL_deleteAllLoop(_, _, _, _, _)
RECURSIVE AVL_deleteAllResume(_, _, _, _, _)
AVL_deleteAllLoop(h, value, node, max, deleteCount) ==
  IF node = NULL THEN [h |-> h, ret |-> deleteCount]
  ELSE IF elementsEqual(h.value[node], value)
  THEN AVL_deleteAllResume(AVL_deleteAt(h, node), value, node, max, deleteCount + 1)
  ELSE AVL_deleteAllResume(h, value, node, max, deleteCount)

AVL_deleteAllResume(h, value, node, max, deleteCount) ==
  IF node = max THEN [h |-> h, ret |-> deleteCount]
  ELSE AVL_deleteAllLoop(h, value, Node_next(h, node), max, deleteCount)

AVL_deleteAllRange(h, value, r) == AVL_deleteAllLoop(h, value, r.min, r.max, 0)

AVL_deleteAll(h, value) == AVL_deleteAllRange(h, value, AVL_equalKeys(h, getKey(value)))

\* ---------------------------------------------------------- BST: BSNode
RECURSIVE BSNode_getLeftmost(_, _)
BSNode_getLeftmost(h, n) == IF h.left[n] # NULL THEN BSNode_getLeftmost(h, h.left[n]) ELSE n

RECURSIVE BSNode_getRightmost(_, _)
BSNode_getRightmost(h, n) == IF h.right[n] # NULL THEN BSNode_getRightmost(h, h.right[n]) ELSE n

RECURSIVE BSNode_upWhileRight(_, _)
BSNode_upWhileRight(h, n) ==
  IF h.parent[n] # NULL /\ n = h.right[h.parent[n]]
  THEN BSNode_upWhileRight(h, h.parent[n]) ELSE h.parent[n]

RECURSIVE BSNode_upWhileLeft(_, _)
BSNode_upWhileLeft(h, n) ==
  IF h.parent[n] # NULL /\ n = h.left[h.parent[n]]
  THEN BSNode_upWhileLeft(h, h.parent[n]) ELSE h.parent[n]

BSNode_next(h, n) ==
  IF h.right[n] # NULL THEN BSNode_getLeftmost(h, h.right[n]) ELSE BSNode_upWhileRight(h, n)

BSNode_prev(h, n) ==
  IF h.left[n] # NULL THEN BSNode_getRightmost(h, h.left[n]) ELSE BSNode_upWhileLeft(h, n)

\* ------------------------------------------------------ BST: policies
isKeyLessThan(a, b) == a < b
isEqual(a, b) == a = b
areKeysEqual(a, b) == ~isKeyLessThan(a, b) /\ ~isKeyLessThan(b, a)

\* ResolveAction: the three modes the switch of add names, and "Insert" for
\* any mode the switch lets fall through.
ResolveAction == {"Error", "Replace", "Ignore", "Insert"}

\* --------------------------------------------------- BST: getAddHint, add
RECURSIVE BST_hintLoop(_, _, _)
BST_hintLoop(h, key, node) ==
  IF node = NULL THEN NULL
  ELSE LET nodeKey == getKey(h.value[node])
           keySmaller == isKeyLessThan(key, nodeKey)
       IN IF h.left[node] # NULL /\ keySmaller THEN BST_hintLoop(h, key, h.left[node])
          ELSE IF h.right[node] # NULL /\ (isKeyLessThan(nodeKey, key) \/ ~keySmaller)
          THEN BST_hintLoop(h, key, h.right[node])
          ELSE node

BST_getAddHint(h, element) == BST_hintLoop(h, getKey(element), h.root)

\* createNode(element) in slot n.
BST_createNode(h, n, element) ==
  [h EXCEPT !.value[n] = element, !.left[n] = NULL, !.right[n] = NULL,
            !.parent[n] = NULL, !.balance[n] = 0]

Added(h, cursor) == [h |-> h, inserted |-> TRUE, cursor |-> cursor, threw |-> FALSE]
Ignored(h, cursor) == [h |-> h, inserted |-> FALSE, cursor |-> cursor, threw |-> FALSE]
Thrown(h) == [h |-> h, inserted |-> FALSE, cursor |-> NULL, threw |-> TRUE]

BST_linkNode(h, parent, element, node) ==
  Added([(IF isKeyLessThan(getKey(element), getKey(h.value[parent]))
          THEN [BST_createNode(h, node, element) EXCEPT !.left[parent] = node]
          ELSE [BST_createNode(h, node, element) EXCEPT !.right[parent] = node])
         EXCEPT !.parent[node] = parent, !.size = @ + 1], node)

\* BST_link that hangs the new node on the other side.
BST_link_flip(h, parent, element) ==
  BST_linkNode(h, parent, <<MaxKey + 1 - getKey(element), element[2]>>, NewNode(h))

\* Lines 451-459: link a fresh node under parent.
BST_link(h, parent, element) == BST_linkNode(h, parent, element, NewNode(h))

BST_addRoot(h, element, n) ==
  Added([BST_createNode(h, n, element) EXCEPT !.root = n, !.size = @ + 1], n)

\* Lines 439-450: the equal-element tier.
BST_onDuplicateElements(h, c, parent, element) ==
  IF isEqual(element, h.value[parent])
  THEN CASE c.onDuplicateElements = "Error" -> Thrown(h)
         [] c.onDuplicateElements = "Replace" -> Added([h EXCEPT !.value[parent] = element], parent)
         [] c.onDuplicateElements = "Ignore" -> Ignored(h, parent)
         [] OTHER -> BST_link(h, parent, element)
  ELSE BST_link(h, parent, element)

\* Lines 428-459 with the hint at hand.
BST_addAt(h, c, element, parent) ==
  IF parent = NULL THEN BST_addRoot(h, element, NewNode(h))
  ELSE IF areKeysEqual(getKey(h.value[parent]), getKey(element))
  THEN CASE c.onDuplicateKeys = "Error" -> Thrown(h)
         [] c.onDuplicateKeys = "Replace" -> Added([h EXCEPT !.value[parent] = element], parent)
         [] c.onDuplicateKeys = "Ignore" -> Ignored(h, parent)
         [] OTHER -> BST_onDuplicateElements(h, c, parent, element)
  ELSE BST_link(h, parent, element)

\* Result: [h, inserted, cursor, threw].
BST_add(h, c, element) == BST_addAt(h, c, element, BST_getAddHint(h, element))

\* ------------------------------------------------ BST: lookup and ranges
RECURSIVE BST_findKeyFrom(_, _, _)
BST_findKeyFrom(h, key, node) ==
  IF node = NULL THEN NULL
  ELSE LET otherKey == getKey(h.value[node]) IN
       IF isKeyLessThan(key, otherKey) THEN BST_findKeyFrom(h, key, h.left[node])
       ELSE IF isKeyLessThan(otherKey, key) THEN BST_findKeyFrom(h, key, h.right[node])
       ELSE node

\* BST_findKey that gives up when the key is not at the root.
BST_findKey_rootOnly(h, key) ==
  IF h.root # NULL /\ areKeysEqual(key, getKey(h.value[h.root])) THEN h.root ELSE NULL

BST_findKey(h, key) == BST_findKeyFrom(h, key, h.root)

BST_hasKey(h, key) == BST_findKey(h, key) # NULL

\* Lines 684-704: descend towards key, stop at its node or where the
\* descent would fall off the tree.
RECURSIVE BST_nearestFrom(_, _, _)
BST_nearestFrom(h, key, node) ==
  IF node = NULL THEN NULL
  ELSE IF isKeyLessThan(key, getKey(h.value[node]))
  THEN IF h.left[node] = NULL THEN node ELSE BST_nearestFrom(h, key, h.left[node])
  ELSE IF isKeyLessThan(getKey(h.value[node]), key)
  THEN IF h.right[node] = NULL THEN node ELSE BST_nearestFrom(h, key, h.right[node])
  ELSE node

BST_getNearest(h, key) == BST_nearestFrom(h, key, h.root)

RECURSIVE BST_lowerLoop(_, _, _)
BST_lowerLoop(h, key, nearest) ==
  IF nearest # NULL /\ isKeyLessThan(key, getKey(h.value[nearest]))
  THEN BST_lowerLoop(h, key, BSNode_prev(h, nearest))
  ELSE nearest

RECURSIVE BST_upperLoop(_, _, _)
BST_upperLoop(h, key, nearest) ==
  IF nearest # NULL /\ isKeyLessThan(getKey(h.value[nearest]), key)
  THEN BST_upperLoop(h, key, BSNode_next(h, nearest))
  ELSE nearest

\* getGreatestLowerBound that does not step back from the nearest node.
getGreatestLowerBound_noStep(h, key) == BST_getNearest(h, key)

getGreatestLowerBound(h, key) == BST_lowerLoop(h, key, BST_getNearest(h, key))

getLeastUpperBound(h, key) == BST_upperLoop(h, key, BST_getNearest(h, key))

RECURSIVE findMinEqual(_, _, _)
findMinEqual(h, key, node) ==
  IF node = NULL THEN NULL
  ELSE LET nodeKey == getKey(h.value[node]) IN
       IF isKeyLessThan(key, nodeKey) THEN findMinEqual(h, key, h.left[node])
       ELSE IF isKeyLessThan(nodeKey, key) THEN findMinEqual(h, key, h.right[node])
       ELSE OrElse(findMinEqual(h, key, h.left[node]), node)

RECURSIVE findMaxEqual(_, _, _)
findMaxEqual(h, key, node) ==
  IF node = NULL THEN NULL
  ELSE LET nodeKey == getKey(h.value[node]) IN
       IF isKeyLessThan(key, nodeKey) THEN findMaxEqual(h, key, h.left[node])
       ELSE IF isKeyLessThan(nodeKey, key) THEN findMaxEqual(h, key, h.right[node])
       ELSE OrElse(findMaxEqual(h, key, h.right[node]), node)

\* nodeCount = -1 stands for "undefined" (not yet counted).
equalKeysNoStrict(h, key) ==
  LET top == BST_findKey(h, key) IN
  [min |-> findMinEqual(h, key, top), max |-> findMaxEqual(h, key, top),
   nodeCount |-> -1, reversed |-> FALSE]

RECURSIVE equalKeysStrictLoop(_, _, _, _)
equalKeysStrictLoop(h, key, max, count) ==
  LET next == BSNode_next(h, max) IN
  IF next = NULL \/ isKeyLessThan(key, getKey(h.value[next]))
  THEN [max |-> max, count |-> count]
  ELSE equalKeysStrictLoop(h, key, next, count + 1)

\* equalKeysStrict that does not walk on from findKey's node.
equalKeysStrict_single(h, key) ==
  LET min == BST_findKey(h, key) IN
  IF min = NULL THEN [min |-> NULL, max |-> NULL, nodeCount |-> 0, reversed |-> FALSE]
  ELSE [min |-> min, max |-> min, nodeCount |-> 1, reversed |-> FALSE]

equalKeysStrict(h, key) ==
  LET min == BST_findKey(h, key) IN
  IF min = NULL THEN [min |-> NULL, max |-> NULL, nodeCount |-> 0, reversed |-> FALSE]
  ELSE LET r == equalKeysStrictLoop(h, key, min, 1) IN
       [min |-> min, max |-> r.max, nodeCount |-> r.count, reversed |-> FALSE]

\* The abstract equalKeys, as the concrete tree binds it.
BST_equalKeys(h, c, key) ==
  IF c.strict THEN equalKeysStrict(h, key) ELSE equalKeysNoStrict(h, key)

RECURSIVE BSNodeRange_walk(_, _, _, _)
BSNodeRange_walk(h, node, stop, reversed) ==
  IF node = NULL THEN <<>>
  ELSE IF node = stop THEN <<node>>
  ELSE <<node>> \o BSNodeRange_walk(h, IF reversed THEN BSNode_prev(h, node)
                                                    ELSE BSNode_next(h, node),
                                    stop, reversed)

\* BSNodeRange_cursors whose reversed traversal starts at min instead of max.
BSNodeRange_cursors_fromMin(h, r) ==
  IF r.reversed THEN BSNodeRange_walk(h, r.min, r.max, TRUE)
  ELSE BSNodeRange_walk(h, r.min, r.max, FALSE)

BSNodeRange_cursors(h, r) ==
  IF r.reversed THEN BSNodeRange_walk(h, r.max, r.min, TRUE)
  ELSE BSNodeRange_walk(h, r.min, r.max, FALSE)

BSNodeRange_reverse(r) ==
  [min |-> r.min, max |-> r.max, nodeCount |-> r.nodeCount, reversed |-> ~r.reversed]

\* Lines 287-297: the size getter. Result: the value it returns and the
\* range with the count it has memoized.
BSNodeRange_counted(r, n) == [size |-> n, range |-> [r EXCEPT !.nodeCount = n]]

BSNodeRange_size(h, r) ==
  IF r.nodeCount = -1 THEN BSNodeRange_counted(r, Len(BSNodeRange_cursors(h, r)))
  ELSE [size |-> r.nodeCount, range |-> r]

BST_begin(h) == IF h.root # NULL THEN BSNode_getLeftmost(h, h.root) ELSE NULL
BST_end(h) == IF h.root # NULL THEN BSNode_getRightmost(h, h.root) ELSE NULL

BST_toRange(h) ==
  [min |-> BST_begin(h), max |-> BST_end(h), nodeCount |-> h.size, reversed |-> FALSE]

BST_hasIn(h, cs, element) == \E i \in 1..Len(cs) : isEqual(h.value[cs[i]], element)

BST_has(h, c, element) ==
  BST_hasIn(h, BSNodeRange_cursors(h, BST_equalKeys(h, c, getKey(element))), element)

\* ------------------------------------------------------ BST: rotations
\* BST_rotateLeft that forgets to re-parent the inner grandchild.
BST_rotateLeft_orphan(h, node) ==
  LET right == h.right[node]
      newNode == h.right[node]
      h1 == IF node = h.root THEN [h EXCEPT !.root = newNode]
            ELSE LET parent == h.parent[node] IN
                 IF h.left[parent] = node THEN [h EXCEPT !.left[parent] = newNode]
                                          ELSE [h EXCEPT !.right[parent] = newNode]
      h2 == [h1 EXCEPT !.parent[newNode] = h1.parent[node]]
      h3 == [h2 EXCEPT !.parent[node] = right]
      h4 == [h3 EXCEPT !.right[node] = h3.left[right]]
  IN [h4 EXCEPT !.left[right] = node]

BST_rotateLeft(h, node) ==
  LET right == h.right[node]
      newNode == h.right[node]
      h1 == IF node = h.root THEN [h EXCEPT !.root = newNode]
            ELSE LET parent == h.parent[node] IN
                 IF h.left[parent] = node THEN [h EXCEPT !.left[parent] = newNode]
                                          ELSE [h EXCEPT !.right[parent] = newNode]
      h2 == [h1 EXCEPT !.parent[newNode] = h1.parent[node]]
      h3 == [h2 EXCEPT !.parent[node] = right]
      h4 == [h3 EXCEPT !.right[node] = h3.left[right]]
      h5 == IF h4.left[right] # NULL THEN [h4 EXCEPT !.parent[h4.left[right]] = node] ELSE h4
  IN [h5 EXCEPT !.left[right] = node]

BST_rotateRight(h, node) ==
  LET left == h.left[node]
      newNode == h.left[node]
      h1 == IF node = h.root THEN [h EXCEPT !.root = newNode]
            ELSE LET parent == h.parent[node] IN
                 IF h.left[parent] = node THEN [h EXCEPT !.left[parent] = newNode]
                                          ELSE [h EXCEPT !.right[parent] = newNode]
      h2 == [h1 EXCEPT !.parent[newNode] = h1.parent[node]]
      h3 == [h2 EXCEPT !.parent[node] = left]
      h4 == [h3 EXCEPT !.left[node] = h3.right[left]]
      h5 == IF h4.right[left] # NULL THEN [h4 EXCEPT !.parent[h4.right[left]] = node] ELSE h4
  IN [h5 EXCEPT !.right[left] = node]

\* -------------------------------------------------------- BST: deleteAt
\* swapValues that swaps nothing.
swapValues_none(h, a, b) == h

swapValues(h, a, b) ==
  LET keep == h.value[a] IN [h EXCEPT !.value[a] = h.value[b], !.value[b] = keep]

RECURSIVE BST_deleteAt(_, _)
BST_deleteAt(h, node) ==
  LET parent == h.parent[node] IN
  IF h.left[node] = NULL /\ h.right[node] = NULL
  THEN IF node = h.root THEN [h EXCEPT !.root = NULL]
       ELSE IF node = h.left[parent] THEN [h EXCEPT !.left[parent] = NULL]
       ELSE [h EXCEPT !.right[parent] = NULL]
  ELSE IF h.left[node] = NULL \/ h.right[node] = NULL
  THEN LET replacement == IF h.left[node] # NULL THEN h.left[node] ELSE h.right[node]
           h1 == [h EXCEPT !.parent[replacement] = parent]
       IN IF node = h1.root THEN [h1 EXCEPT !.root = replacement]
          ELSE IF node = h1.left[parent] THEN [h1 EXCEPT !.left[parent] = replacement]
          ELSE [h1 EXCEPT !.right[parent] = replacement]
  ELSE LET replacement == BSNode_getLeftmost(h, h.right[node]) IN
       BST_deleteAt(swapValues(h, node, replacement), replacement)

\* ------------------------------------- BST: delete, deleteAll, deleteKey
\* BST_deleteFound that does not compare the element found.
BST_deleteFound_anyValue(h, element, node) ==
  IF node = NULL THEN [h |-> h, ret |-> FALSE]
  ELSE [h |-> BST_deleteAt(h, node), ret |-> TRUE]

BST_deleteFound(h, element, node) ==
  IF node = NULL \/ ~isEqual(h.value[node], element) THEN [h |-> h, ret |-> FALSE]
  ELSE [h |-> BST_deleteAt(h, node), ret |-> TRUE]

BST_delete(h, element) == BST_deleteFound(h, element, BST_findKey(h, getKey(element)))

\* The generator of BSNodeRange.cursors() resumes (node === this.max,
\* node.next()) on the heap the loop body left.
RECURSIVE BST_deleteAllLoop(_, _, _, _, _)
RECURSIVE BST_deleteAllResume(_, _, _, _, _)
BST_deleteAllLoop(h, element, node, max, deleteCount) ==
  IF node = NULL THEN [h |-> h, ret |-> deleteCount]
  ELSE IF isEqual(h.value[node], element)
  THEN BST_deleteAllResume(BST_deleteAt(h, node), element, node, max, deleteCount + 1)
  ELSE BST_deleteAllResume(h, element, node, max, deleteCount)

BST_deleteAllResume(h, element, node, max, deleteCount) ==
  IF node = max THEN [h |-> h, ret |-> deleteCount]
  ELSE BST_deleteAllLoop(h, element, BSNode_next(h, node), max, deleteCount)

BST_deleteAllRange(h, element, r) == BST_deleteAllLoop(h, element, r.min, r.max, 0)

BST_deleteAll(h, c, element) ==
  BST_deleteAllRange(h, element, BST_equalKeys(h, c, getKey(element)))

RECURSIVE BST_deleteKeyLoop(_, _, _, _)
RECURSIVE BST_deleteKeyResume(_, _, _, _)
BST_deleteKeyLoop(h, node, max, deleteCount) ==
  IF node = NULL THEN [h |-> h, ret |-> deleteCount]
  ELSE BST_deleteKeyResume(BST_deleteAt(h, node), node, max, deleteCount + 1)

BST_deleteKeyResume(h, node, max, deleteCount) ==
  IF node = max THEN [h |-> h, ret |-> deleteCount]
  ELSE BST_deleteKeyLoop(h, BSNode_next(h, node), max, deleteCount)

BST_deleteKeyRange(h, r) == BST_deleteKeyLoop(h, r.min, r.max, 0)

BST_deleteKey(h, c, key) == BST_deleteKeyRange(h, BST_equalKeys(h, c, key))

\* ------------------------------------------------------- AVL: clone
\* new AVLTree(lessThan, getKey, elementsEqual, allowDuplicates): the
\* constructor leaves _size = 0 and _root = null; no element is copied.
AVL_clone(h) == EmptyTree

\* ------------------------------------------------------ BinaryMinHeap
\* The heap's _vector is a sequence; index i of the source is position i + 1
\* of the sequence.
Vector_size(v) == Len(v)
Vector_getAt(v, index) == v[index + 1]
Vector_replace(v, index, element) == [v EXCEPT ![index + 1] = element]
Vector_append(v, element) == Append(v, element)
Vector_first(v) == v[1]
Vector_deleteAtIndex(v, index) ==
  [i \in 1..(Len(v) - 1) |-> IF i <= index THEN v[i] ELSE v[i + 1]]
Vector_swap(v, a, b) == [v EXCEPT ![a + 1] = v[b + 1], ![b + 1] = v[a + 1]]

\* The compare policy of a min-heap: strictly smaller priority.
Heap_compare(a, b) == lessThan(getKey(a), getKey(b))

\* Math.floor(position / 2)
ParentPos(position) == position \div 2

\* Lines 108-121: the loop of _siftUp. Result: [v, position].
RECURSIVE Heap_siftUpLoop(_, _, _)
Heap_siftUpLoop(v, position, element) ==
  IF position > 1
     /\ ~Heap_compare(Vector_getAt(v, ParentPos(position) - 1), Vector_getAt(v, position - 1))
  THEN Heap_siftUpLoop(
         Vector_replace(Vector_replace(v, ParentPos(position) - 1, element),
                        Vector_size(v) - 1, Vector_getAt(v, ParentPos(position) - 1)),
         ParentPos(position),
         Vector_getAt(v, ParentPos(position) - 1))
  ELSE [v |-> v, position |-> position]

Heap_siftUp(v, position) == Heap_siftUpLoop(v, position, Vector_getAt(v, position - 1))

\* The result of add, given what _siftUp returned: the vector, inserted
\* (always true) and the index held by the VectorCursor.
Heap_added(r) == [v |-> r.v, inserted |-> TRUE, index |-> r.position - 1]

Heap_addAppended(v) == Heap_added(Heap_siftUp(v, Vector_size(v)))

Heap_add(v, el) == Heap_addAppended(Vector_append(v, el))

\* Lines 87-104: _siftDown. smallest is position, then left, then right,
\* each taken when it is in the vector and compares less.
Heap_smallestOf(v, candidate, smallest) ==
  IF candidate <= Vector_size(v)
     /\ Heap_compare(Vector_getAt(v, candidate - 1), Vector_getAt(v, smallest - 1))
  THEN candidate ELSE smallest

RECURSIVE Heap_siftDown(_, _)
Heap_siftDownTo(v, position, smallest) ==
  IF smallest # position
  THEN Heap_siftDown(Vector_swap(v, position - 1, smallest - 1), smallest)
  ELSE v

Heap_siftDown(v, position) ==
  Heap_siftDownTo(v, position,
                  Heap_smallestOf(v, 2 * position + 1,
                                  Heap_smallestOf(v, 2 * position, position)))

\* Lines 73-80 of deleteAtIndex: the vector has lost its last element, which
\* now sits at index.
Heap_deleteFix(v, index, replacement) ==
  IF Vector_size(v) <= 1 THEN v
  ELSE IF index > 1
          /\ ~Heap_compare(replacement, Vector_getAt(v, ((index + 1) \div 2) - 1))
       THEN Heap_siftUp(v, index + 1).v
       ELSE Heap_siftDown(v, index + 1)

Heap_deleteAtIndex(v, index) ==
  IF index = Vector_size(v) - 1 THEN Vector_deleteAtIndex(v, index)
  ELSE Heap_deleteFix(Vector_deleteAtIndex(
                        Vector_replace(v, index, Vector_getAt(v, Vector_size(v) - 1)),
                        Vector_size(v) - 1),
                      index, Vector_getAt(v, Vector_size(v) - 1))

\* delete(el): the first index holding el. Result: [v, ret].
RECURSIVE Heap_deleteFrom(_, _, _)
Heap_deleteFrom(v, el, i) ==
  IF i >= Vector_size(v) THEN [v |-> v, ret |-> FALSE]
  ELSE IF Vector_getAt(v, i) = el THEN [v |-> Heap_deleteAtIndex(v, i), ret |-> TRUE]
  ELSE Heap_deleteFrom(v, el, i + 1)

Heap_delete(v, el) == Heap_deleteFrom(v, el, 0)

Heap_deleteMin(v) == Heap_deleteAtIndex(v, 0)

\* min() on a heap that is not empty.
Heap_min(v) == Vector_first(v)

\* ----------------------------------------------------------- StringDict
\* _values is an object without prototype: reading a key it does not hold
\* gives undefined. Keys are strings, here numbered 1..MaxKey; V is
\* 1..MaxPayload.
Undefined == 0
DictKeys == Keys
DictValues == 1..MaxPayload

\* clear(): Object.create(null)
StringDict_clear == [key \in DictKeys |-> Undefined]

\* Result: [d, threw].
StringDict_addPair(d, key, value) ==
  IF d[key] # Undefined THEN [d |-> d, threw |-> TRUE]
  ELSE [d |-> [d EXCEPT ![key] = value], threw |-> FALSE]

StringDict_add(d, pair) == StringDict_addPair(d, pair[1], pair[2])

\* Result: [value, threw].
StringDict_getValue(d, key) ==
  IF d[key] = Undefined THEN [value |-> Undefined, threw |-> TRUE]
  ELSE [value |-> d[key], threw |-> FALSE]

StringDict_hasKey(d, key) == d[key] # Undefined

StringDict_has(d, pair) == StringDict_hasKey(d, pair[1])

\* Result: [d, threw]. The method has no statement after the throw.
StringDict_deleteKey(d, key) ==
  IF d[key] = Undefined THEN [d |-> d, threw |-> TRUE]
  ELSE [d |-> d, threw |-> FALSE]

StringDict_delete(d, pair) == StringDict_deleteKey(d, pair[1])

StringDict_deleteValue(d, value) ==
  [key \in DictKeys |-> IF d[key] = value THEN Undefined ELSE d[key]]

\* ------------------------------------------------------- observations
\* In-order walk from begin() by repeated next(): the nodes, then their
\* values and keys.
InOrderAVL(h) == NodeRange_walk(h, AVL_begin(h), NULL, FALSE)
InOrderBST(h) == BSNodeRange_walk(h, BST_begin(h), NULL, FALSE)
InOrder(k, h) == IF k = "AVL" THEN InOrderAVL(h) ELSE InOrderBST(h)

\* Number of reachable nodes holding value v / key k.
CountValue(h, v) == Cardinality({n \in Reach(h) : h.value[n] = v})
CountKey(h, k) == Cardinality({n \in Reach(h) : getKey(h.value[n]) = k})
Kids(h, n) == (IF h.left[n] # NULL THEN 1 ELSE 0) + (IF h.right[n] # NULL THEN 1 ELSE 0)

\* What the last call was, what it returned, what it found on entry (h) and
\* which nodes it linked or unlinked (h against the heap g it left).
\* How many elements the call reported as put in (positive) or taken out
\* (negative).
Reported(op, ok, count) ==
  CASE op = "add" -> IF ok THEN 1 ELSE 0
    [] op = "delete" -> IF ok THEN -1 ELSE 0
    [] op = "deleteAt" -> -1
    [] op \in {"deleteKey", "deleteAll"} -> 0 - count
    [] OTHER -> 0

\* stored: for an AVLTree, the elements its callers were told are in it
\* (reported insertions less reported removals).
\* moved: for AVLTree.add, the nodes it gave another parent (by rotating).
Call(op, node, key, val, ok, count, cursor, threw, h, g) ==
  [op |-> op, node |-> node, key |-> key, val |-> val, ok |-> ok, count |-> count,
   cursor |-> Rename(g, cursor), threw |-> threw,
   keyCount |-> CountKey(h, key), elemCount |-> CountValue(h, val),
   kids |-> IF node = NULL THEN 0 ELSE Kids(h, node),
   created |-> Cardinality(Reach(g) \ Reach(h)),
   unlinked |-> Cardinality(Reach(h) \ Reach(g)),
   stored |-> IF kind = "AVL" THEN last.stored + Reported(op, ok, count) ELSE 0,
   moved |-> IF kind = "AVL" /\ op = "add"
             THEN Cardinality({m \in Reach(h) : g.parent[m] # h.parent[m]}) ELSE 0]

NoCall ==
  [op |-> "new", node |-> NULL, key |-> 0, val |-> NoValue, ok |-> FALSE, count |-> 0,
   cursor |-> NULL, threw |-> FALSE, keyCount |-> 0, elemCount |-> 0, kids |-> 0,
   created |-> 0, unlinked |-> 0, stored |-> 0, moved |-> 0]

\* ---------------------------------------------------------------- Init
AVLConfigs ==
  {[allowDuplicates |-> d, onDuplicateKeys |-> "Error", onDuplicateElements |-> "Error",
    strict |-> FALSE] : d \in BOOLEAN}

\* onDuplicateElements is read only when onDuplicateKeys falls through the
\* switch; there it is the constructor's default or lets the insertion go on.
BSTConfigs ==
  {c \in [allowDuplicates : {TRUE}, onDuplicateKeys : ResolveAction,
          onDuplicateElements : {"Error", "Insert"}, strict : BOOLEAN] :
     c.onDuplicateKeys # "Insert" => c.onDuplicateElements = "Error"}

InitAVL ==
  /\ kind = "AVL"
  /\ cfg \in AVLConfigs
  /\ tree = EmptyTree
  /\ last = NoCall
  /\ vector = <<>>
  /\ dictValues = StringDict_clear

\* new BinaryMinHeap(new Vector(), compare)
InitHeap ==
  /\ kind = "Heap"
  /\ cfg = [allowDuplicates |-> TRUE, onDuplicateKeys |-> "Insert",
            onDuplicateElements |-> "Insert", strict |-> FALSE]
  /\ tree = EmptyTree
  /\ last = NoCall
  /\ vector = <<>>
  /\ dictValues = StringDict_clear

InitBST ==
  /\ kind = "BST"
  /\ cfg \in BSTConfigs
  /\ tree = EmptyTree
  /\ last = NoCall
  /\ vector = <<>>
  /\ dictValues = StringDict_clear

Init == InitAVL \/ InitBST

\* ------------------------------------------------------------- actions
HasRoom == Cardinality(Reach(tree)) < MaxSize /\ tree.size < MaxSize

\* The call returns: the heap g it left becomes the tree, and the call is
\* recorded.
Return(op, node, key, val, ok, count, cursor, threw, g) ==
  /\ tree' = Collect(g)
  /\ last' = Call(op, node, key, val, ok, count, cursor, threw, tree, g)
  /\ UNCHANGED <<kind, cfg, vector, dictValues>>

ReturnAVLAdd(v, r) == Return("add", NULL, getKey(v), v, r.inserted, 0, r.cursor, FALSE, r.h)
ReturnBSTAdd(v, r) == Return("add", NULL, getKey(v), v, r.inserted, 0, r.cursor, r.threw, r.h)
ReturnBool(op, v, r) == Return(op, NULL, getKey(v), v, r.ret, 0, NULL, FALSE, r.h)
ReturnCount(op, k, v, r) == Return(op, NULL, k, v, TRUE, r.ret, NULL, FALSE, r.h)
ReturnVoid(op, n, g) ==
  Return(op, n, getKey(tree.value[n]), tree.value[n], TRUE, 0, NULL, FALSE, g)

AVLAdd(v) ==
  /\ kind = "AVL"
  /\ HasRoom
  /\ ReturnAVLAdd(v, AVL_add(tree, cfg.allowDuplicates, v))

\* add on a tree that may fill the arena.
AVLAddDeep(v) ==
  /\ kind = "AVL"
  /\ Cardinality(Reach(tree)) < MaxNodes
  /\ ReturnAVLAdd(v, AVL_add(tree, cfg.allowDuplicates, v))

AVLDeleteAt(n) ==
  /\ kind = "AVL"
  /\ n \in Reach(tree)
  /\ ReturnVoid("deleteAt", n, AVL_deleteAt(tree, n))

AVLDelete(v) ==
  /\ kind = "AVL"
  /\ ReturnBool("delete", v, AVL_delete(tree, v))

AVLDeleteKey(k) ==
  /\ kind = "AVL"
  /\ ReturnCount("deleteKey", k, NoValue, AVL_deleteKey(tree, k))

AVLDeleteAll(v) ==
  /\ kind = "AVL"
  /\ ReturnCount("deleteAll", getKey(v), v, AVL_deleteAll(tree, v))

\* clone() hands a second tree to the caller and leaves this one alone; the
\* call records the size of the tree it returned.
AVLClone ==
  /\ kind = "AVL"
  /\ Return("clone", NULL, 0, NoValue, TRUE, AVL_clone(tree).size, NULL, FALSE, tree)

BSTAdd(v) ==
  /\ kind = "BST"
  /\ HasRoom
  /\ ReturnBSTAdd(v, BST_add(tree, cfg, v))

BSTDeleteAt(n) ==
  /\ kind = "BST"
  /\ n \in Reach(tree)
  /\ ReturnVoid("deleteAt", n, BST_deleteAt(tree, n))

BSTDelete(v) ==
  /\ kind = "BST"
  /\ ReturnBool("delete", v, BST_delete(tree, v))

BSTDeleteKey(k) ==
  /\ kind = "BST"
  /\ ReturnCount("deleteKey", k, NoValue, BST_deleteKey(tree, cfg, k))

BSTDeleteAll(v) ==
  /\ kind = "BST"
  /\ ReturnCount("deleteAll", getKey(v), v, BST_deleteAll(tree, cfg, v))

BSTRotateLeft(n) ==
  /\ kind = "BST"
  /\ n \in Reach(tree)
  /\ tree.right[n] # NULL
  /\ ReturnVoid("rotateLeft", n, BST_rotateLeft(tree, n))

BSTRotateRight(n) ==
  /\ kind = "BST"
  /\ n \in Reach(tree)
  /\ tree.left[n] # NULL
  /\ ReturnVoid("rotateRight", n, BST_rotateRight(tree, n))

\* The call on the heap returns: the cursor is recorded as the position
\* (index + 1) it refers to.
ReturnHeapAdd(el, r) ==
  /\ vector' = r.v
  /\ last' = [NoCall EXCEPT !.op = "add", !.key = getKey(el), !.val = el,
                            !.ok = r.inserted, !.cursor = r.index + 1]
  /\ UNCHANGED <<kind, cfg, tree, dictValues>>

HeapAdd(el) ==
  /\ kind = "Heap"
  /\ Vector_size(vector) < MaxHeapSize
  /\ ReturnHeapAdd(el, Heap_add(vector, el))

\* A deletion on the heap returns: the call records the element and the
\* position (index + 1) it was about, 0 when it was about none.
ReturnHeap(op, el, ok, position, v) ==
  /\ vector' = v
  /\ last' = [NoCall EXCEPT !.op = op, !.key = getKey(el), !.val = el,
                            !.ok = ok, !.cursor = position]
  /\ UNCHANGED <<kind, cfg, tree, dictValues>>

HeapDeleteAtIndex(index) ==
  /\ kind = "Heap"
  /\ index < Vector_size(vector)
  /\ ReturnHeap("deleteAtIndex", Vector_getAt(vector, index), TRUE, index + 1,
                Heap_deleteAtIndex(vector, index))

HeapDeleteMin ==
  /\ kind = "Heap"
  /\ Vector_size(vector) > 0
  /\ ReturnHeap("deleteMin", Vector_first(vector), TRUE, 1, Heap_deleteMin(vector))

ReturnHeapDelete(el, r) == ReturnHeap("delete", el, r.ret, 0, r.v)

HeapDelete(el) ==
  /\ kind = "Heap"
  /\ ReturnHeapDelete(el, Heap_delete(vector, el))

\* new StringDict()
InitDict ==
  /\ kind = "Dict"
  /\ cfg = [allowDuplicates |-> FALSE, onDuplicateKeys |-> "Error",
            onDuplicateElements |-> "Error", strict |-> FALSE]
  /\ tree = EmptyTree
  /\ last = NoCall
  /\ vector = <<>>
  /\ dictValues = StringDict_clear

\* A call on the dictionary returns: the call records its key and pair
\* (0 where it has none) and whether it threw.
ReturnDict(op, key, pair, threw, d) ==
  /\ dictValues' = d
  /\ last' = [NoCall EXCEPT !.op = op, !.key = key, !.val = pair, !.threw = threw]
  /\ UNCHANGED <<kind, cfg, tree, vector>>

ReturnDictResult(op, key, pair, r) == ReturnDict(op, key, pair, r.threw, r.d)

DictAddPair(key, value) ==
  /\ kind = "Dict"
  /\ ReturnDictResult("addPair", key, <<key, value>>,
                      StringDict_addPair(dictValues, key, value))

DictDeleteKey(key) ==
  /\ kind = "Dict"
  /\ ReturnDictResult("deleteKey", key, NoValue, StringDict_deleteKey(dictValues, key))

DictDelete(pair) ==
  /\ kind = "Dict"
  /\ ReturnDictResult("delete", pair[1], pair, StringDict_delete(dictValues, pair))

DictDeleteValue(value) ==
  /\ kind = "Dict"
  /\ ReturnDict("deleteValue", 0, <<0, value>>, FALSE,
                StringDict_deleteValue(dictValues, value))

DictClear ==
  /\ kind = "Dict"
  /\ ReturnDict("clear", 0, NoValue, FALSE, StringDict_clear)

\* ------------------------------------------------------ specifications
AVLCore ==
  \/ \E v \in Values : AVLAdd(v)
  \/ \E v \in Values : AVLDelete(v)
  \/ \E n \in Nodes : AVLDeleteAt(n)

AVLBulk ==
  \/ \E k \in Keys : AVLDeleteKey(k)
  \/ \E v \in Values : AVLDeleteAll(v)

BSTCore ==
  \/ \E v \in Values : BSTAdd(v)
  \/ \E v \in Values : BSTDelete(v)
  \/ \E n \in Nodes : BSTDeleteAt(n)

BSTBulk ==
  \/ \E k \in Keys : BSTDeleteKey(k)
  \/ \E v \in Values : BSTDeleteAll(v)

BSTRotate ==
  \/ \E n \in Nodes : BSTRotateLeft(n)
  \/ \E n \in Nodes : BSTRotateRight(n)

\* Both trees, through add / delete / deleteAt.
Next == AVLCore \/ BSTCore
Spec == Init /\ [][Next]_vars

\* Both trees through add and deleteAt, with the rotations the BST base
\* hands to its subclasses; a rotating tree binds equalKeys to the
\* non-strict search.
InitRot == InitAVL \/ (InitBST /\ ~cfg.strict)
NextRot ==
  \/ \E v \in Values : AVLAdd(v)
  \/ \E n \in Nodes : AVLDeleteAt(n)
  \/ \E v \in Values : BSTAdd(v)
  \/ \E n \in Nodes : BSTDeleteAt(n)
  \/ BSTRotate
SpecRot == InitRot /\ [][NextRot]_vars

\* The AVL tree alone.
NextAVL == AVLCore
SpecAVL == InitAVL /\ [][NextAVL]_vars

NextAVLBulk == AVLCore \/ AVLBulk
SpecAVLBulk == InitAVL /\ [][NextAVLBulk]_vars

\* The BST base alone, with its bulk deletions.
NextBST == BSTCore \/ BSTBulk
SpecBST == InitBST /\ [][NextBST]_vars

\* The AVL tree through add and deleteAt, grown up to the whole arena.
NextAVLDeep ==
  \/ \E v \in Values : AVLAddDeep(v)
  \/ \E n \in Nodes : AVLDeleteAt(n)
SpecAVLDeep == InitAVL /\ [][NextAVLDeep]_vars

\* The AVL tree through add, delete and deleteAt, grown up to the whole arena.
NextAVLAll ==
  \/ \E v \in Values : AVLAddDeep(v)
  \/ \E v \in Values : AVLDelete(v)
  \/ \E n \in Nodes : AVLDeleteAt(n)
SpecAVLAll == InitAVL /\ [][NextAVLAll]_vars

\* The binary min-heap through add and its deletions.
NextHeap ==
  \/ \E v \in Values : HeapAdd(v)
  \/ \E v \in Values : HeapDelete(v)
  \/ \E i \in 0..(MaxHeapSize - 1) : HeapDeleteAtIndex(i)
  \/ HeapDeleteMin
SpecHeap == InitHeap /\ [][NextHeap]_vars

\* The BST base through add and deleteAt alone.
NextBSTGrow ==
  \/ \E v \in Values : BSTAdd(v)
  \/ \E n \in Nodes : BSTDeleteAt(n)
SpecBSTGrow == InitBST /\ [][NextBSTGrow]_vars

\* The string dictionary.
NextDict ==
  \/ \E key \in DictKeys, value \in DictValues : DictAddPair(key, value)
  \/ \E key \in DictKeys : DictDeleteKey(key)
  \/ \E pair \in DictKeys \X DictValues : DictDelete(pair)
  \/ \E value \in DictValues : DictDeleteValue(value)
  \/ DictClear
SpecDict == InitDict /\ [][NextDict]_vars

\* The AVL tree with clone().
NextClone == AVLCore \/ AVLClone
SpecClone == InitAVL /\ [][NextClone]_vars

\* The three collections of the add() test, through add.
InitAdd == InitAVL \/ InitBST \/ InitHeap
NextAdd ==
  \/ \E v \in Values : AVLAdd(v)
  \/ \E v \in Values : BSTAdd(v)
  \/ \E v \in Values : HeapAdd(v)
SpecAdd == InitAdd /\ [][NextAdd]_vars

\* Both trees through add and the deletions by element and by key.
NextBulk ==
  \/ \E v \in Values : AVLAdd(v)
  \/ \E v \in Values : AVLDelete(v)
  \/ AVLBulk
  \/ \E v \in Values : BSTAdd(v)
  \/ \E v \in Values : BSTDelete(v)
  \/ BSTBulk
SpecBulk == Init /\ [][NextBulk]_vars

\* =============================================================== claims
KeysOf(h, ns) == [i \in 1..Len(ns) |-> getKey(h.value[ns[i]])]
NonDecreasing(ks) == \A i, j \in 1..Len(ks) : i < j => ~lessThan(ks[j], ks[i])
TwoShareAKey(h) == \E k \in Keys : CountKey(h, k) >= 2

\* C1: in an AVLTree reached from the empty tree by add, delete and deleteAt,
\* every reachable node has a balance factor in {-1, 0, 1}.
C1_BalanceBounded ==
  kind = "AVL" => \A n \in Reach(tree) : tree.balance[n] \in {-1, 0, 1}

\* A deletion that left a three-node tree behind (it came from four nodes,
\* where removing a leaf can force a rotation).
C1_Witness ==
  /\ kind = "AVL"
  /\ last.op = "deleteAt"
  /\ Cardinality(Reach(tree)) = 3
  /\ last.kids = 0

\* C2: for the BST base and the AVL tree, the walk begin(), next(), ...
\* yields keys in non-decreasing order, duplicates and relocated values
\* included.
C2_InOrderSorted == NonDecreasing(KeysOf(tree, InOrder(kind, tree)))

\* A BST that holds a duplicate key right after deleteAt relocated a value
\* out of a node with two children.
C2_Witness ==
  /\ kind = "BST"
  /\ last.op = "deleteAt"
  /\ last.kids = 2
  /\ TwoShareAKey(tree)

\* C3: the root has no parent and every other reachable node is exactly one
\* of its parent's left and right child.
C3_ParentConsistent ==
  /\ tree.root # NULL => tree.parent[tree.root] = NULL
  /\ \A n \in Reach(tree) \ {tree.root} :
       LET p == tree.parent[n] IN
       /\ p \in Reach(tree)
       /\ (tree.left[p] = n) # (tree.right[p] = n)

\* A BST rotation below the root that moved an inner grandchild: the rotated
\* node has a parent and a right child again.
C3_Witness ==
  /\ kind = "BST"
  /\ last.op = "rotateLeft"
  /\ \E n \in Reach(tree) :
       /\ tree.left[n] # NULL
       /\ tree.parent[n] # NULL
       /\ tree.right[tree.left[n]] # NULL

\* C4: in an AVLTree, size equals the number of nodes the walk from begin()
\* through next() reaches.
C4_SizeIsTraversal ==
  kind = "AVL" => tree.size = Len(InOrderAVL(tree))

\* A successful delete that left at least two nodes.
C4_Witness ==
  /\ kind = "AVL"
  /\ last.op = "delete"
  /\ last.ok
  /\ Len(InOrderAVL(tree)) >= 2

\* C5: in the BST base, size (elementCount) equals the number of nodes
\* reachable from the root.
C5_BSTSizeIsNodeCount ==
  kind = "BST" => tree.size = Cardinality(Reach(tree))

\* C6: deleteAt(n) on a node of the tree removes exactly the value n held:
\* the stored multiset loses that one value, no node is created and exactly
\* one node is unlinked.
C6_DeleteAtRemovesOne ==
  [][last'.op = "deleteAt" =>
       /\ \A v \in Values :
            CountValue(tree', v) = CountValue(tree, v) - (IF v = last'.val THEN 1 ELSE 0)
       /\ last'.created = 0
       /\ last'.unlinked = 1]_vars

\* deleteAt has just run on a node that had two children.
C6_Witness ==
  /\ last.op = "deleteAt"
  /\ last.kids = 2

\* C7: AVLTree.deleteKey(k) removes every element with key k, keeps every
\* other element and returns the number of elements that had key k.
C7_DeleteKeyRemovesAll ==
  [][(kind = "AVL" /\ last'.op = "deleteKey") =>
       /\ ~AVL_hasKey(tree', last'.key)
       /\ \A v \in Values :
            getKey(v) # last'.key => CountValue(tree', v) = CountValue(tree, v)
       /\ last'.count = CountKey(tree, last'.key)]_vars

\* C8: under onDuplicateKeys = Error, add of an element whose key is stored
\* throws and leaves the tree as it was; so no two nodes share a key.
C8_ErrorRejectsDuplicateKey ==
  [][(kind = "BST" /\ cfg.onDuplicateKeys = "Error" /\ last'.op = "add"
        /\ CountKey(tree, last'.key) >= 1) =>
       (last'.threw /\ tree' = tree)]_vars

\* C9: under onDuplicateKeys = Replace, add of (k, v2) to a tree that stores
\* key k leaves size and the node count alone and findKey(k) then holds v2.
C9_ReplaceOverwrites ==
  [][(kind = "BST" /\ cfg.onDuplicateKeys = "Replace" /\ last'.op = "add"
        /\ CountKey(tree, last'.key) >= 1) =>
       /\ tree'.size = tree.size
       /\ Cardinality(Reach(tree')) = Cardinality(Reach(tree))
       /\ BST_findKey(tree', last'.key) # NULL
       /\ tree'.value[BST_findKey(tree', last'.key)] = last'.val]_vars

\* C10: has(x) is true right after an add(x) that reports inserted = true,
\* and false right after delete(x) on a tree that stored x exactly once.
Has(k, h, c, x) == IF k = "AVL" THEN AVL_has(h, x) ELSE BST_has(h, c, x)

C10_HasAfterAddAndDelete ==
  [][/\ (last'.op = "add" /\ last'.ok) => Has(kind, tree', cfg, last'.val)
     /\ (last'.op = "delete" /\ CountValue(tree, last'.val) = 1)
          => ~Has(kind, tree', cfg, last'.val)]_vars

\* C11: deleting what is not stored is a no-op: when has(x) is false,
\* delete(x) returns false and deleteAll(x) returns 0; when no element has
\* key k, deleteKey(k) returns 0; nothing is thrown and the tree (nodes,
\* values, links, balance factors, size) is unchanged.
C11_AbsentDeleteIsNoOp ==
  [][/\ (last'.op = "delete" /\ ~Has(kind, tree, cfg, last'.val))
          => (~last'.ok /\ ~last'.threw /\ tree' = tree)
     /\ (last'.op = "deleteAll" /\ ~Has(kind, tree, cfg, last'.val))
          => (last'.count = 0 /\ ~last'.threw /\ tree' = tree)
     /\ (last'.op = "deleteKey" /\ CountKey(tree, last'.key) = 0)
          => (last'.count = 0 /\ ~last'.threw /\ tree' = tree)]_vars

\* delete(x) has just run on a tree that stores x's key with another payload
\* only.
C11_Witness ==
  /\ last.op = "delete"
  /\ last.elemCount = 0
  /\ last.keyCount >= 1
  /\ ~last.ok

\* C12: delete(x) returns true and removes exactly one element equal to x
\* when has(x) held before the call, and returns false (removing nothing)
\* otherwise; for the BST base also when several elements share x's key.
C12_DeleteRemovesStored ==
  [][last'.op = "delete" =>
       IF Has(kind, tree, cfg, last'.val)
       THEN /\ last'.ok
            /\ \A v \in Values :
                 CountValue(tree', v) = CountValue(tree, v) - (IF v = last'.val THEN 1 ELSE 0)
       ELSE /\ ~last'.ok
            /\ tree' = tree]_vars

\* C13: an AVLTree whose callers have taken out as many elements as they
\* put in (by delete or deleteAt, in any order) is empty again: size is 0 and
\* the root is absent, so begin() and end() are absent.
C13_RoundTripEmpty ==
  (kind = "AVL" /\ last.stored = 0) =>
     /\ tree.size = 0
     /\ tree.root = NULL
     /\ AVL_begin(tree) = NULL
     /\ AVL_end(tree) = NULL

\* The last of the stored elements has just been deleted from a tree in
\* which no two elements shared a key.
C13_Witness ==
  /\ kind = "AVL"
  /\ ~cfg.allowDuplicates
  /\ last.op = "delete"
  /\ last.ok
  /\ last.stored = 0

\* The nodes of ns, in order, whose key is k.
WithKey(h, ns, k) == LET holds(n) == getKey(h.value[n]) = k IN SelectSeq(ns, holds)

\* C14: for every key k, the forward traversal of equalKeys(k) on an AVLTree,
\* and of equalKeysNoStrict(k) on a BST, yields exactly the stored nodes
\* whose key is k, each once, in in-order (none when no stored key is k).
C14_EqualKeysExact ==
  \A k \in Keys :
    /\ kind = "AVL" =>
         NodeRange_cursors(tree, AVL_equalKeys(tree, k)) = WithKey(tree, InOrderAVL(tree), k)
    /\ (kind = "BST" /\ ~cfg.strict) =>
         BSNodeRange_cursors(tree, equalKeysNoStrict(tree, k)) = WithKey(tree, InOrderBST(tree), k)

\* An AVLTree of four nodes, three of which share a key.
C14_Witness ==
  /\ kind = "AVL"
  /\ Cardinality(Reach(tree)) = 4
  /\ \E k \in Keys : Len(NodeRange_cursors(tree, AVL_equalKeys(tree, k))) = 3

FindKey(k, h, key) == IF k = "AVL" THEN AVL_findKey(h, key) ELSE BST_findKey(h, key)
HasKey(k, h, key) == IF k = "AVL" THEN AVL_hasKey(h, key) ELSE BST_hasKey(h, key)
Next_(k, h, n) == IF k = "AVL" THEN Node_next(h, n) ELSE BSNode_next(h, n)
FoundRight(h, key, n) ==
  /\ CountKey(h, key) >= 1 => (n \in Reach(h) /\ getKey(h.value[n]) = key)
  /\ CountKey(h, key) = 0 => n = NULL

\* C15: findKey(k) returns a node whose key equals k exactly when some
\* stored element has key k, and the absent sentinel otherwise; hasKey(k)
\* agrees with it.
C15_FindKeyFinds ==
  \A k \in Keys :
    /\ FoundRight(tree, k, FindKey(kind, tree, k))
    /\ HasKey(kind, tree, k) = (CountKey(tree, k) >= 1)

\* A full tree in which one key is missing and another is stored twice.
C15_Witness ==
  /\ Cardinality(Reach(tree)) = MaxSize
  /\ \E k \in Keys : CountKey(tree, k) = 0
  /\ TwoShareAKey(tree)

\* n is the topmost node with key: every node holding key is n or below n.
Topmost(h, key, n) == \A m \in Reach(h) : getKey(h.value[m]) = key => m \in Subtree(h, n)
\* next() of n holds key again.
NextHasKey(k, h, key, n) ==
  /\ Next_(k, h, n) # NULL
  /\ getKey(h.value[Next_(k, h, n)]) = key

\* C16: findKey(k) returns the topmost node holding key k, and next() on the
\* result is a node with key k whenever another stored node has key k.
C16_FindKeyTopmostThenNext ==
  \A k \in Keys :
    FindKey(kind, tree, k) # NULL =>
      /\ Topmost(tree, k, FindKey(kind, tree, k))
      /\ CountKey(tree, k) >= 2 => NextHasKey(kind, tree, k, FindKey(kind, tree, k))

\* The stored keys that are not greater / not less than key.
KeysUpTo(h, key) == {getKey(h.value[n]) : n \in Reach(h)} \cap 1..key
KeysFrom(h, key) == {getKey(h.value[n]) : n \in Reach(h)} \cap key..MaxKey
\* n is absent when ks is empty and else holds the greatest / least key of ks.
HoldsGreatest(h, ks, n) ==
  IF ks = {} THEN n = NULL
  ELSE n \in Reach(h) /\ getKey(h.value[n]) \in ks /\ \A j \in ks : j <= getKey(h.value[n])
HoldsLeast(h, ks, n) ==
  IF ks = {} THEN n = NULL
  ELSE n \in Reach(h) /\ getKey(h.value[n]) \in ks /\ \A j \in ks : j >= getKey(h.value[n])

\* C17: on a BST, getGreatestLowerBound(k) is a node holding the greatest
\* stored key not greater than k (absent when every stored key is greater),
\* and getLeastUpperBound(k) a node holding the least stored key not less
\* than k (absent when every stored key is less).
C17_BoundsAreTight ==
  kind = "BST" =>
    \A k \in Keys :
      /\ HoldsGreatest(tree, KeysUpTo(tree, k), getGreatestLowerBound(tree, k))
      /\ HoldsLeast(tree, KeysFrom(tree, k), getLeastUpperBound(tree, k))

\* A BST that stores keys on both sides of a key it does not store, with the
\* nearest node above that key, so the lower bound has to step back.
C17_Witness ==
  /\ kind = "BST"
  /\ \E k \in Keys :
       /\ CountKey(tree, k) = 0
       /\ KeysUpTo(tree, k) # {}
       /\ KeysFrom(tree, k) # {}
       /\ getKey(tree.value[BST_getNearest(tree, k)]) > k

\* The values of an AVLTree in traversal order.
ValuesOfAVL(h) == [i \in 1..Len(InOrderAVL(h)) |-> h.value[InOrderAVL(h)[i]]]

\* C18: clone() of an AVLTree returns a tree of the same size that yields the
\* same in-order sequence of values, and leaves the tree it was called on
\* unchanged.
C18_CloneIsDeepCopy ==
  [][(kind = "AVL" /\ last'.op = "clone") =>
       /\ last'.count = tree.size
       /\ ValuesOfAVL(AVL_clone(tree)) = ValuesOfAVL(tree)
       /\ tree' = tree]_vars

\* The value a cursor returned by add refers to.
CursorValue(k, h, v, cursor) == IF k = "Heap" THEN v[cursor] ELSE h.value[cursor]

\* C19: an add(x) that reports inserted = true returns a cursor whose value
\* is x, for BinaryMinHeap, AVLTree and BST, after any earlier adds.
C19_AddReturnsCursorToElement ==
  [][(last'.op = "add" /\ last'.ok) =>
       CursorValue(kind, tree', vector', last'.cursor) = last'.val]_vars

\* The nodes from n up to the root.
RECURSIVE AncestorsFrom(_, _)
AncestorsFrom(h, n) == IF n = NULL THEN <<>> ELSE <<n>> \o AncestorsFrom(h, h.parent[n])

\* The balance path[i] has once the new leaf hangs below it: one more when the
\* leaf is in its left subtree, one less when it is in its right subtree.
Adjusted(h, path, i, cmp) ==
  h.balance[path[i]] +
    (IF i = 1 THEN (IF cmp <= 0 THEN 1 ELSE -1)
     ELSE IF h.left[path[i]] = path[i - 1] THEN 1 ELSE -1)

Stops(h, path, i, cmp) == Adjusted(h, path, i, cmp) \in {0, 2, -2}

\* The first ancestor whose adjusted balance is 0 or out of range; one past
\* the root when there is none.
FirstStop(h, path, cmp) ==
  IF \E i \in 1..Len(path) : Stops(h, path, i, cmp)
  THEN CHOOSE i \in 1..Len(path) :
         Stops(h, path, i, cmp) /\ \A j \in 1..(i - 1) : ~Stops(h, path, j, cmp)
  ELSE Len(path) + 1

Rotates(h, path, s, cmp) == s <= Len(path) /\ Adjusted(h, path, s, cmp) \in {2, -2}

\* g is h after the add; s is the first stop on the path of ancestors.
RetraceStopsAt(h, g, path, cmp, s) ==
  /\ \A i \in 1..Len(path) :
       i > s => /\ g.balance[path[i]] = h.balance[path[i]]
                /\ g.parent[path[i]] = h.parent[path[i]]
  /\ \A m \in Reach(h) :
       g.parent[m] # h.parent[m] => (Rotates(h, path, s, cmp) /\ m \in Subtree(h, path[s]))
  /\ ~Rotates(h, path, s, cmp) =>
       \A i \in 1..Len(path) : i <= s => g.balance[path[i]] = Adjusted(h, path, i, cmp)

RetraceStops(h, g, hint) ==
  RetraceStopsAt(h, g, AncestorsFrom(h, hint.node), hint.cmp,
                 FirstStop(h, AncestorsFrom(h, hint.node), hint.cmp))

\* C20: in AVLTree.add, retracing stops at the first ancestor whose balance
\* becomes 0 or leaves {-1, 0, 1}; there the one rotation event (single or
\* double) happens, confined to that ancestor's subtree, and no ancestor
\* above it has its balance or its parent link changed by the add.
C20_OneRotationThenStop ==
  [][(kind = "AVL" /\ last'.op = "add" /\ last'.ok /\ tree.root # NULL) =>
       RetraceStops(tree, AVL_add(tree, cfg.allowDuplicates, last'.val).h,
                    AVL_getAddHint(tree, cfg.allowDuplicates, last'.val))]_vars

\* An add has just rotated below the root: it gave nodes another parent and
\* the root, which a rotation of the root would have left balanced, leans.
C20_Witness ==
  /\ kind = "AVL"
  /\ last.op = "add"
  /\ last.ok
  /\ last.moved > 0
  /\ tree.balance[tree.root] # 0

\* The ranges a BST hands out: toRange() and both equalKeys searches.
BSTRanges(h) ==
  {BST_toRange(h)} \cup {equalKeysStrict(h, k) : k \in Keys}
                  \cup {equalKeysNoStrict(h, k) : k \in Keys}

\* C21: for every range of toRange(), equalKeysStrict and equalKeysNoStrict
\* on a BST, size equals the number of nodes cursors() yields, and reading
\* size again returns the same value.
C21_RangeSizeIsCursorCount ==
  kind = "BST" =>
    \A r \in BSTRanges(tree) :
      /\ BSNodeRange_size(tree, r).size = Len(BSNodeRange_cursors(tree, r))
      /\ BSNodeRange_size(tree, BSNodeRange_size(tree, r).range).size
           = BSNodeRange_size(tree, r).size

\* The ranges an AVLTree hands out.
AVLRanges(h) == {AVL_toRange(h)} \cup {AVL_equalKeys(h, k) : k \in Keys}
\* A sequence back to front.
Reversed(q) == [i \in 1..Len(q) |-> q[Len(q) + 1 - i]]

ReverseOfNodeRange(h, r) ==
  /\ NodeRange_reverse(r).min = r.min
  /\ NodeRange_reverse(r).max = r.max
  /\ NodeRange_cursors(h, NodeRange_reverse(r)) = Reversed(NodeRange_cursors(h, r))
  /\ NodeRange_size(h, NodeRange_reverse(r)) = NodeRange_size(h, r)
  /\ NodeRange_cursors(h, NodeRange_reverse(NodeRange_reverse(r))) = NodeRange_cursors(h, r)

ReverseOfBSNodeRange(h, r) ==
  /\ BSNodeRange_reverse(r).min = r.min
  /\ BSNodeRange_reverse(r).max = r.max
  /\ BSNodeRange_cursors(h, BSNodeRange_reverse(r)) = Reversed(BSNodeRange_cursors(h, r))
  /\ BSNodeRange_size(h, BSNodeRange_reverse(r)).size = BSNodeRange_size(h, r).size
  /\ BSNodeRange_cursors(h, BSNodeRange_reverse(BSNodeRange_reverse(r)))
       = BSNodeRange_cursors(h, r)

Boundaries(h) == Reach(h) \cup {NULL}
AllNodeRanges(h) ==
  [min : Boundaries(h), max : Boundaries(h), reversed : BOOLEAN]
AllBSNodeRanges(h) ==
  [min : Boundaries(h), max : Boundaries(h), nodeCount : {-1}, reversed : BOOLEAN]

Cursors(k, h, r) == IF k = "AVL" THEN NodeRange_cursors(h, r) ELSE BSNodeRange_cursors(h, r)
AllRanges(k, h) == IF k = "AVL" THEN AllNodeRanges(h) ELSE AllBSNodeRanges(h)
StepOf(k, h, n, reversed) ==
  IF k = "AVL" THEN (IF reversed THEN Node_prev(h, n) ELSE Node_next(h, n))
  ELSE (IF reversed THEN BSNode_prev(h, n) ELSE BSNode_next(h, n))
StartOf(r) == IF r.reversed THEN r.max ELSE r.min
StopOf(r) == IF r.reversed THEN r.min ELSE r.max

\* min is at or before max in left-node-right order.
PosIn(q, x) == CHOOSE i \in 1..Len(q) : q[i] = x
InOrderPair(h, r) ==
  /\ r.min # NULL
  /\ r.max # NULL
  /\ PosIn(Flatten(h, h.root), r.min) <= PosIn(Flatten(h, h.root), r.max)

\* q starts at the start boundary, each further node is the step of the one
\* before, no node but the last is the stop boundary, and the last is the
\* stop boundary or the node the tree ends with in that direction.
StepsFromStart(k, h, r, q) ==
  /\ Len(q) >= 1
  /\ q[1] = StartOf(r)
  /\ \A i \in 1..(Len(q) - 1) :
       q[i] # StopOf(r) /\ q[i + 1] = StepOf(k, h, q[i], r.reversed)
  /\ q[Len(q)] = StopOf(r) \/ StepOf(k, h, q[Len(q)], r.reversed) = NULL

EndsAtStop(r, q) == Len(q) >= 1 /\ q[1] = StartOf(r) /\ q[Len(q)] = StopOf(r)

\* C23 as stated: a range with an absent boundary yields nothing; any other
\* range (min at or before max) starts at its start boundary and stops after
\* yielding the other one.
C23_AbsentBoundaryIsEmpty ==
  \A r \in AllRanges(kind, tree) :
    /\ (r.min = NULL \/ r.max = NULL) => Cursors(kind, tree, r) = <<>>
    /\ InOrderPair(tree, r) => EndsAtStop(r, Cursors(kind, tree, r))

\* C23: cursors() is empty exactly when the boundary the traversal starts at
\* (min forward, max reversed) is absent; otherwise it starts there and
\* applies next() (prev() when reversed) until it has yielded the other
\* boundary or the tree has no further node, which is where it ends when the
\* other boundary is absent; with min at or before max it ends at the other
\* boundary.
C23_StartsAtStartStopsAtStop ==
  \A r \in AllRanges(kind, tree) :
    /\ StartOf(r) = NULL => Cursors(kind, tree, r) = <<>>
    /\ StartOf(r) # NULL => StepsFromStart(kind, tree, r, Cursors(kind, tree, r))
    /\ InOrderPair(tree, r) => EndsAtStop(r, Cursors(kind, tree, r))

\* A BST on which a forward range with min present and max absent yields
\* three nodes.
C23_Witness ==
  /\ kind = "BST"
  /\ \E n \in Reach(tree) :
       Len(BSNodeRange_cursors(tree, [min |-> n, max |-> NULL, nodeCount |-> -1,
                                      reversed |-> FALSE])) = 3

\* Number of nodes on the longest path from n down to a leaf.
RECURSIVE Height(_, _)
Height(h, n) ==
  IF n = NULL THEN 0
  ELSE 1 + (IF Height(h, h.left[n]) >= Height(h, h.right[n])
            THEN Height(h, h.left[n]) ELSE Height(h, h.right[n]))

\* C24: on an AVLTree, after any sequence of add, delete and deleteAt, the
\* stored balance of every reachable node is the height of its left subtree
\* minus the height of its right subtree.
C24_BalanceIsHeightDifference ==
  kind = "AVL" =>
    \A n \in Reach(tree) :
      tree.balance[n] = Height(tree, tree.left[n]) - Height(tree, tree.right[n])

\* An add has just rotated and left a tree of five nodes.
C24_Witness ==
  /\ kind = "AVL"
  /\ last.op = "add"
  /\ last.moved > 0
  /\ Cardinality(Reach(tree)) = MaxNodes

\* Position i of the vector is index i - 1; its parent, at index
\* floor((index + 1) / 2) - 1, is position i \div 2.
HeapOrdered(v) == \A i \in 2..Len(v) : ~Heap_compare(v[i], v[i \div 2])

\* C25: in a BinaryMinHeap, after any sequence of add, deleteMin, delete and
\* deleteAtIndex, no element compares less than its parent, and no stored
\* element compares less than what min() returns.
C25_HeapOrder ==
  kind = "Heap" =>
    /\ HeapOrdered(vector)
    /\ \A i \in 1..Len(vector) : ~Heap_compare(vector[i], Heap_min(vector))

\* How often x is stored in the vector.
Stored(v, x) == Cardinality({i \in 1..Len(v) : v[i] = x})
Plus(x, y) == IF x = y THEN 1 ELSE 0

\* C26: add(x) changes the multiset of stored elements by adding one x, and
\* deleteAtIndex(i) with 0 <= i < size by removing one occurrence of the
\* element that was at index i.
C26_MultisetChangesByOperand ==
  [][kind = "Heap" =>
       /\ last'.op = "add" =>
            \A x \in Values : Stored(vector', x) = Stored(vector, x) + Plus(x, last'.val)
       /\ last'.op = "deleteAtIndex" =>
            \A x \in Values : Stored(vector', x) + Plus(x, last'.val) = Stored(vector, x)]_vars

\* C27: an AVLTree constructed with allowDuplicates = false never holds two
\* nodes with equal keys after add, delete or deleteAt; add of an element
\* whose key is stored returns inserted = false with a cursor to the node
\* holding that key and leaves nodes, values, balances and size as they were.
C27_NoDuplicateKeys ==
  [][(kind = "AVL" /\ ~cfg.allowDuplicates) =>
       /\ ~TwoShareAKey(tree')
       /\ (last'.op = "add" /\ CountKey(tree, last'.key) >= 1) =>
            /\ ~last'.ok
            /\ last'.cursor \in Reach(tree)
            /\ getKey(tree.value[last'.cursor]) = last'.key
            /\ tree' = tree]_vars

\* An add of a stored key has just been refused on a tree of three or more
\* nodes.
C27_Witness ==
  /\ kind = "AVL"
  /\ ~cfg.allowDuplicates
  /\ last.op = "add"
  /\ ~last.ok
  /\ last.keyCount = 1
  /\ Cardinality(Reach(tree)) >= 3

\* C28: on a BST reached through add and deleteAt, equalKeysStrict(k) is the
\* range from the first to the last node with key k in in-order, its
\* traversal yields exactly the stored nodes with key k, and its a-priori
\* count is their number (0, with absent boundaries, when k is not stored).
C28_StrictRangeExact ==
  kind = "BST" =>
    \A k \in Keys :
      /\ BSNodeRange_cursors(tree, equalKeysStrict(tree, k)) = WithKey(tree, InOrderBST(tree), k)
      /\ equalKeysStrict(tree, k).nodeCount = CountKey(tree, k)
      /\ CountKey(tree, k) = 0 =>
           (equalKeysStrict(tree, k).min = NULL /\ equalKeysStrict(tree, k).max = NULL)

\* A deleteAt has just left a BST that stores some key three times.
C28_Witness ==
  /\ kind = "BST"
  /\ last.op = "deleteAt"
  /\ \E k \in Keys : CountKey(tree, k) = 3

\* The traversal from n by next(), cut off after fuel nodes: a cut-off
\* traversal ends with Dangling.
RECURSIVE WalkWithin(_, _, _)
WalkWithin(h, n, fuel) ==
  IF n = NULL THEN <<>>
  ELSE IF fuel = 0 THEN <<Dangling>>
  ELSE <<n>> \o WalkWithin(h, Node_next(h, n), fuel - 1)

VisitsEachOnce(h, q) ==
  /\ Len(q) = Cardinality(Reach(h))
  /\ {q[i] : i \in 1..Len(q)} = Reach(h)

\* C29: on every reachable AVLTree the traversal from begin() by next()
\* reaches absent after visiting each reachable node exactly once, and add,
\* deleteAt, deleteKey and deleteAll each return: with a boolean, a tree one
\* node smaller, and a count within the size.
C29_OperationsComplete ==
  kind = "AVL" =>
    /\ VisitsEachOnce(tree, WalkWithin(tree, AVL_begin(tree), Cardinality(Reach(tree))))
    /\ Cardinality(Reach(tree)) < MaxNodes =>
         \A v \in Values : AVL_add(tree, cfg.allowDuplicates, v).inserted \in BOOLEAN
    /\ \A n \in Reach(tree) : AVL_deleteAt(tree, n).size = tree.size - 1
    /\ \A k \in Keys : AVL_deleteKey(tree, k).ret \in 0..tree.size
    /\ \A v \in Values : AVL_deleteAll(tree, v).ret \in 0..tree.size

\* A deleteKey has just deleted two or more nodes while iterating.
C29_Witness ==
  /\ kind = "AVL"
  /\ last.op = "deleteKey"
  /\ last.count >= 2

\* C30: deleteKey(k), and delete of a pair with key k, on a StringDict that
\* holds k removes the entry: hasKey(k) is then false, getValue(k) throws
\* and addPair(k, v) succeeds; deleteKey(k) on a missing key throws and
\* leaves the dictionary as it was.
C30_DeleteKeyRemoves ==
  [][(kind = "Dict" /\ last'.op \in {"deleteKey", "delete"}) =>
       /\ StringDict_hasKey(dictValues, last'.key) =>
            /\ ~last'.threw
            /\ ~StringDict_hasKey(dictValues', last'.key)
            /\ StringDict_getValue(dictValues', last'.key).threw
            /\ \A v \in DictValues : ~StringDict_addPair(dictValues', last'.key, v).threw
       /\ ~StringDict_hasKey(dictValues, last'.key) =>
            (last'.threw /\ dictValues' = dictValues)]_vars

====
